---- MODULE Spec2Model ----
(***************************************************************************)
(* CompressionX (src/compresionx.py): the lossy re-encoder                 *)
(* compression_algorithm, the super-resolution upscaler ai_upscale_image   *)
(* and the Demo page's upload handler, over a file system of image files.  *)
(*                                                                         *)
(* Python's float is IEEE-754 binary64.  The working size of the upscaler  *)
(* is computed with one true division, one float division or product and  *)
(* one truncation; these are modelled bit-exactly on 53-bit significands   *)
(* held as multi-limb naturals, because the double rounding decides the    *)
(* integer that int() returns.                                             *)
(***************************************************************************)
EXTENDS Integers, Sequences, FiniteSets, TLC

(***************************************************************************)
(* Bounds of the model.                                                    *)
(***************************************************************************)
\* image sides 1..MaxSide are enumerated exhaustively
MaxSide == 48
\* and the sides k*max_width-1, k*max_width, k*max_width+1 for k in 1..MaxMult
MaxMult == 2
\* direct calls of the two functions made in a row
MaxCalls == 1
\* uploads handled by the Demo page
MaxUploads == 2

\* default of the parameter max_width of ai_upscale_image
max_width == 540
\* default of the parameter scale of ai_upscale_image
scale == 4
\* default of the parameter quality of compression_algorithm
quality == 40

(***************************************************************************)
(* Multi-limb naturals below 2^64: <<x1, x2, x3, x4>> stands for           *)
(* x1 + x2*Base + x3*Base^2 + x4*Base^3, each limb in 0..Base-1.  Every    *)
(* intermediate value stays below 2^31.                                    *)
(***************************************************************************)
Base == 2^16
\* significand width of binary64
MantBits == 53

\* a natural n < 2^31
BigOfNat(n) == <<n % Base, n \div Base, 0, 0>>

BigZero == BigOfNat(0)

\* the value of x, for x < 2^31
NatOfBig(x) == x[1] + Base * x[2]

\* 2^k, for k < 64
BigPow2(k) ==
    LET i == (k \div 16) + 1
        v == 2^(k % 16)
    IN  <<IF i = 1 THEN v ELSE 0, IF i = 2 THEN v ELSE 0,
          IF i = 3 THEN v ELSE 0, IF i = 4 THEN v ELSE 0>>

\* x >= y
BigGeq(x, y) ==
    IF x[4] # y[4] THEN x[4] > y[4]
    ELSE IF x[3] # y[3] THEN x[3] > y[3]
    ELSE IF x[2] # y[2] THEN x[2] > y[2]
    ELSE x[1] >= y[1]

\* n*x + c, for naturals n < 2^15 and c < 2^16
BigMulAdd(x, n, c) ==
    LET t1 == n * x[1] + c
        t2 == n * x[2] + t1 \div Base
        t3 == n * x[3] + t2 \div Base
        t4 == n * x[4] + t3 \div Base
    IN  <<t1 % Base, t2 % Base, t3 % Base, t4 % Base>>

\* x * n
BigMulNat(x, n) == BigMulAdd(x, n, 0)

\* 2*x + b
BigDbl(x, b) == BigMulAdd(x, 2, b)

\* x + 1
BigInc(x) == BigMulAdd(x, 1, 1)

\* x - y, for x >= y
BigSub(x, y) ==
    LET t1 == x[1] - y[1]
        t2 == x[2] - y[2] - (IF t1 < 0 THEN 1 ELSE 0)
        t3 == x[3] - y[3] - (IF t2 < 0 THEN 1 ELSE 0)
        t4 == x[4] - y[4] - (IF t3 < 0 THEN 1 ELSE 0)
    IN  <<(t1 + Base) % Base, (t2 + Base) % Base,
          (t3 + Base) % Base, (t4 + Base) % Base>>

\* x * 2^k, for a result below 2^64
RECURSIVE BigShiftLeft(_, _)
BigShiftLeft(x, k) ==
    IF k >= 14 THEN BigShiftLeft(BigMulNat(x, 2^14), k - 14)
    ELSE BigMulNat(x, 2^k)

\* x \div 2^k
RECURSIVE BigShiftRight(_, _)
BigShiftRight(x, k) ==
    IF k >= 16 THEN BigShiftRight(<<x[2], x[3], x[4], 0>>, k - 16)
    ELSE LET lo == 2^k
             hi == 2^(16 - k)
         IN  <<x[1] \div lo + (x[2] % lo) * hi,
               x[2] \div lo + (x[3] % lo) * hi,
               x[3] \div lo + (x[4] % lo) * hi,
               x[4] \div lo>>

\* x \div 2
BigHalve(x) ==
    <<x[1] \div 2 + (x[2] % 2) * (Base \div 2),
      x[2] \div 2 + (x[3] % 2) * (Base \div 2),
      x[3] \div 2 + (x[4] % 2) * (Base \div 2),
      x[4] \div 2>>

BigOdd(x) == x[1] % 2 = 1

(***************************************************************************)
(* binary64 values > 0: [m, e] stands for m * 2^e with                     *)
(* 2^(MantBits-1) <= m < 2^MantBits.  Exponent range and subnormals are    *)
(* out of reach of the sizes an image can have.                            *)
(***************************************************************************)
\* the least significand, and the first natural above the significands
MantMin == BigPow2(MantBits - 1)
MantLim == BigPow2(MantBits)

\* the number of bits of a natural n
RECURSIVE BitLength(_)
BitLength(n) == IF n = 0 THEN 0 ELSE 1 + BitLength(n \div 2)

\* int -> float conversion of a positive int below 2^31 (exact)
FloatOfInt(n) ==
    [m |-> BigShiftLeft(BigOfNat(n), MantBits - BitLength(n)),
     e |-> BitLength(n) - MantBits]

\* round to nearest, ties to even, of the significand q whose discarded part
\* is above (up = 1), equal to (up = 0) or below (up = -1) half a unit
RoundNearestEven(q, e, up) ==
    IF up = 1 \/ (up = 0 /\ BigOdd(q))
    THEN LET q1 == BigInc(q)
         IN  IF BigGeq(q1, MantLim)
             THEN [m |-> BigHalve(q1), e |-> e + 1]
             ELSE [m |-> q1, e |-> e]
    ELSE [m |-> q, e |-> e]

\* long division of r by d (0 <= r < 2*d): n more steps of one quotient bit
\* each, or fewer when the quotient q fills the significand; r is doubled
\* after each step
RECURSIVE DivBits(_, _, _, _)
DivBits(r, d, q, n) ==
    IF n = 0 \/ BigGeq(q, MantMin) THEN [q |-> q, r |-> r]
    ELSE IF BigGeq(r, d)
         THEN DivBits(BigDbl(BigSub(r, d), 0), d, BigDbl(q, 1), n - 1)
         ELSE DivBits(BigDbl(r, 0), d, BigDbl(q, 0), n - 1)

\* the quotient bits eight at a time, until the significand is full
RECURSIVE DivLoop(_, _)
DivLoop(qr, d) ==
    IF BigGeq(qr.q, MantMin) THEN qr
    ELSE DivLoop(DivBits(qr.r, d, qr.q, 8), d)

\* a / b, correctly rounded: the quotient of the significands lies in
\* (1/2, 2), so its first bit is that of 2^0 or of 2^-1
FloatDiv(a, b) ==
    LET qr == DivLoop([q |-> BigZero, r |-> a.m], b.m)
        e  == a.e - b.e - (MantBits - 1) - (IF BigGeq(a.m, b.m) THEN 0 ELSE 1)
        up == IF qr.r = b.m THEN 0 ELSE IF BigGeq(qr.r, b.m) THEN 1 ELSE -1
    IN  RoundNearestEven(qr.q, e, up)

\* drop low bits of p until it fits the significand; guard is the last bit
\* dropped, sticky says whether a bit dropped before it was set
RECURSIVE RoundLoop(_, _, _, _)
RoundLoop(p, e, guard, sticky) ==
    IF BigGeq(p, MantLim)
    THEN RoundLoop(BigHalve(p), e + 1, p[1] % 2, sticky \/ guard = 1)
    ELSE RoundNearestEven(p, e, IF guard = 0 THEN -1
                                ELSE IF sticky THEN 1 ELSE 0)

\* n * a for a positive int n < 2^11 (its conversion is exact), correctly rounded
FloatMulInt(n, a) == RoundLoop(BigMulNat(a.m, n), a.e, 0, FALSE)

\* round(a) in place of int(a): to the nearest integer, halves upward
int_nearest(a) ==
    (1 + (IF a.e + 1 >= 0 THEN NatOfBig(BigShiftLeft(a.m, a.e + 1))
          ELSE NatOfBig(BigShiftRight(a.m, -(a.e + 1))))) \div 2

\* int(a): truncation toward zero, for a < 2^31
int(a) ==
    IF a.e >= 0 THEN NatOfBig(BigShiftLeft(a.m, a.e))
    ELSE NatOfBig(BigShiftRight(a.m, -a.e))

(***************************************************************************)
(* ai_upscale_image, lines 40-49: the working size of an h x w image.      *)
(***************************************************************************)
\* the ratio taken the wrong way round: h / w
aspect_ratio_inverted(w, h) == FloatDiv(FloatOfInt(h), FloatOfInt(w))

\* line 41: w / h
aspect_ratio(w, h) == FloatDiv(FloatOfInt(w), FloatOfInt(h))

working_size(w, h, maxw) ==
    IF w > h
    THEN [new_w |-> maxw, new_h |-> int(FloatDiv(FloatOfInt(maxw), aspect_ratio(w, h)))]
    ELSE [new_w |-> int(FloatMulInt(maxw, aspect_ratio(w, h))), new_h |-> maxw]

(***************************************************************************)
(* The file system.  A path is the sequence of the string pieces it is     *)
(* concatenated from; a file is absent, unreadable as an image, or an      *)
(* image: the upload it derives from (0: it was there before), its width   *)
(* and height, how many lossy re-encodes it went through and whether the   *)
(* super-resolution model produced it.                                     *)
(***************************************************************************)
NoFile == [kind |-> "absent", id |-> 0, w |-> 0, h |-> 0, passes |-> 0, up |-> FALSE]
Corrupt == [kind |-> "corrupt", id |-> 0, w |-> 0, h |-> 0, passes |-> 0, up |-> FALSE]
Image(id, w, h) ==
    [kind |-> "image", id |-> id, w |-> w, h |-> h, passes |-> 0, up |-> FALSE]

IsImage(c) == c.kind = "image"

\* uploaded file names, and the image sizes uploaded
Names == {<<"a.png">>, <<"compressed_", "a.png">>, <<"ai_upscaled_", "a.png">>}
Shapes == {<<4, 3>>, <<3, 4>>, <<max_width + 1, 1>>}

\* lines 95-97
original_image_path(name) == <<"temp/">> \o name
compressed_image_path(name) == <<"temp/", "compressed_">> \o name
ai_image_path(name) == <<"temp/", "ai_upscaled_">> \o name

Paths == {original_image_path(n) : n \in Names}
         \cup {compressed_image_path(n) : n \in Names}
         \cup {ai_image_path(n) : n \in Names}

NoPath == <<>>

\* the exception classes the library calls raise; all derive from Exception
Exceptions == {"FileNotFoundError", "UnidentifiedImageError", "cv2.error"}
\* where a library call of the upscaler may fail on its own
Faults == {"none", "readModel", "upsample", "imwrite"}

(***************************************************************************)
(* compression_algorithm, lines 9-15.                                      *)
(***************************************************************************)
\* img.save(output_path, optimize=True, quality=quality) of an opened image
Reencoded(c) == [c EXCEPT !.passes = @ + 1]

\* the try body, lines 11-12: the exception it ends with, and the files
compression_try(fs, image_file, output_path) ==
    IF fs[image_file] = NoFile THEN [exc |-> "FileNotFoundError", files |-> fs]
    ELSE IF ~IsImage(fs[image_file])
    THEN [exc |-> "UnidentifiedImageError", files |-> fs]
    ELSE [exc |-> "none",
          files |-> [fs EXCEPT ![output_path] = Reencoded(fs[image_file])]]

\* the function without its except clause: FileNotFoundError leaves it
compression_uncaught(fs, image_file, output_path) ==
    LET t == compression_try(fs, image_file, output_path)
    IN  IF t.exc = "none"
        THEN [files |-> t.files, error |-> FALSE, raised |-> "none",
              ret |-> output_path]
        ELSE [files |-> t.files, error |-> FALSE, raised |-> t.exc,
              ret |-> NoPath]

\* what the call does: files afterwards, whether st.error was called, the
\* exception that leaves the function ("none": it returned ret)
compression_algorithm(fs, image_file, output_path) ==
    LET t == compression_try(fs, image_file, output_path)
    IN  IF t.exc \in {"none", "FileNotFoundError"}
        THEN [files |-> t.files, error |-> t.exc # "none", raised |-> "none",
              ret |-> output_path]
        ELSE [files |-> t.files, error |-> FALSE, raised |-> t.exc,
              ret |-> NoPath]

(***************************************************************************)
(* ai_upscale_image, lines 19-71.                                          *)
(***************************************************************************)
\* sr.upsample(img) of the resized image, written by cv2.imwrite
Upscaled(c, sz) ==
    [c EXCEPT !.w = scale * sz.new_w, !.h = scale * sz.new_h, !.up = TRUE]

\* cv2.resize raises on an empty destination size
ResizeFails(sz) == sz.new_w = 0 \/ sz.new_h = 0

\* lines 40-62, for a loaded image c
upscale_loaded(fs, c, sz, output_path, fault) ==
    IF ResizeFails(sz) \/ fault \in {"upsample", "imwrite"}
    THEN [exc |-> "cv2.error", files |-> fs]
    ELSE [exc |-> "none", files |-> [fs EXCEPT ![output_path] = Upscaled(c, sz)]]

\* the try body, lines 25-67
upscale_try(fs, input_path, output_path, model_exists, fault) ==
    IF ~model_exists THEN [exc |-> "FileNotFoundError", files |-> fs]
    ELSE IF fault = "readModel" THEN [exc |-> "cv2.error", files |-> fs]
    ELSE IF ~IsImage(fs[input_path]) THEN [exc |-> "FileNotFoundError", files |-> fs]
    ELSE upscale_loaded(fs, fs[input_path],
                        working_size(fs[input_path].w, fs[input_path].h, max_width),
                        output_path, fault)

\* an except clause that catches FileNotFoundError alone
HandledNotFoundOnly(t, input_path, output_path) ==
    IF t.exc = "none"
    THEN [files |-> t.files, error |-> FALSE, raised |-> "none", ret |-> output_path]
    ELSE IF t.exc = "FileNotFoundError"
    THEN [files |-> t.files, error |-> TRUE, raised |-> "none", ret |-> input_path]
    ELSE [files |-> t.files, error |-> FALSE, raised |-> t.exc, ret |-> NoPath]

\* the except clause, lines 69-71: "except Exception" catches every class
Handled(t, input_path, output_path) ==
    IF t.exc = "none"
    THEN [files |-> t.files, error |-> FALSE, raised |-> "none", ret |-> output_path]
    ELSE IF t.exc \in Exceptions
    THEN [files |-> t.files, error |-> TRUE, raised |-> "none", ret |-> input_path]
    ELSE [files |-> t.files, error |-> FALSE, raised |-> t.exc, ret |-> NoPath]

ai_upscale_image(fs, input_path, output_path, model_exists, fault) ==
    Handled(upscale_try(fs, input_path, output_path, model_exists, fault),
            input_path, output_path)

(***************************************************************************)
(* State.                                                                  *)
(***************************************************************************)
Sessions == {1, 2}

VARIABLES
    img_w, img_h,   \* Sizes: the size of the image
    size,           \* Sizes: its working size, once computed
    sized,
    files,          \* the files under temp/
    model_present,  \* whether models/EDSR_x4.pb exists
    calls,          \* Calls: direct calls made
    last,           \* Calls: the last call, its arguments and its outcome
    pc,             \* per session: where its handler run stands
    req,            \* per session: the upload being handled
    uploads,        \* uploads so far
    name_of,        \* the file name of each upload so far
    log,            \* per session: the steps of the run, in order
    rendered,       \* per session: the images shown by st.image, in order
    reads,          \* per session: the uploads whose files the run has read
    errors,         \* per session: st.error messages shown
    overlapped      \* whether a run ever started while another was under way

svars == <<img_w, img_h, size, sized>>
fvars == <<files, model_present>>
cvars == <<calls, last>>
hvars == <<pc, req, uploads, name_of, log, rendered, reads, errors, overlapped>>
vars == <<svars, fvars, cvars, hvars>>

NoSize == [new_w |-> 0, new_h |-> 0]
NoCall == [op |-> "none", input |-> NoPath, output |-> NoPath, fault |-> "none",
           pre_in |-> NoFile, pre_out |-> NoFile,
           ret |-> NoPath, error |-> FALSE, raised |-> "none"]
NoReq == [id |-> 0, name |-> <<>>, w |-> 0, h |-> 0]

SizeIdle == img_w = 1 /\ img_h = 1 /\ size = NoSize /\ sized = FALSE
CallIdle == calls = 0 /\ last = NoCall
HandlerIdle ==
    /\ pc = [s \in Sessions |-> "idle"]
    /\ req = [s \in Sessions |-> NoReq]
    /\ uploads = 0
    /\ name_of = [i \in 1..MaxUploads |-> <<>>]
    /\ log = [s \in Sessions |-> <<>>]
    /\ rendered = [s \in Sessions |-> <<>>]
    /\ reads = [s \in Sessions |-> {}]
    /\ errors = [s \in Sessions |-> 0]
    /\ overlapped = FALSE
EmptyTemp == files = [p \in Paths |-> NoFile]

(***************************************************************************)
(* Sizes: the working size applied to every image size of the bounds.     *)
(***************************************************************************)
Sides == (1..MaxSide)
         \cup {k * max_width + j : k \in 1..MaxMult, j \in {-1, 0, 1}}

SizeInit ==
    /\ img_w \in Sides
    /\ img_h \in Sides
    /\ size = NoSize
    /\ sized = FALSE
    /\ EmptyTemp
    /\ model_present = TRUE
    /\ CallIdle
    /\ HandlerIdle

ComputeSize ==
    /\ ~sized
    /\ size' = working_size(img_w, img_h, max_width)
    /\ sized' = TRUE
    /\ UNCHANGED <<img_w, img_h, fvars, cvars, hvars>>

SizeNext == ComputeSize

SizeSpec == SizeInit /\ [][SizeNext]_vars

(***************************************************************************)
(* Calls: the two functions called directly on a few files.               *)
(***************************************************************************)
CallPaths == {original_image_path(<<"a.png">>), compressed_image_path(<<"a.png">>)}
Contents == {NoFile, Corrupt} \cup {Image(0, sh[1], sh[2]) : sh \in Shapes}

CallInit ==
    /\ files \in [Paths -> Contents]
    /\ \A p \in Paths \ CallPaths : files[p] = NoFile
    /\ model_present \in BOOLEAN
    /\ CallIdle
    /\ SizeIdle
    /\ HandlerIdle

Called(op, input, output, fault, r) ==
    /\ files' = r.files
    /\ last' = [op |-> op, input |-> input, output |-> output, fault |-> fault,
                pre_in |-> files[input], pre_out |-> files[output],
                ret |-> r.ret, error |-> r.error, raised |-> r.raised]
    /\ calls' = calls + 1
    /\ UNCHANGED <<model_present, svars, hvars>>

CallCompression ==
    /\ calls < MaxCalls
    /\ \E input \in CallPaths, output \in CallPaths :
          Called("compression_algorithm", input, output, "none",
                 compression_algorithm(files, input, output))

CallUpscale ==
    /\ calls < MaxCalls
    /\ \E input \in CallPaths, output \in CallPaths, fault \in Faults :
          Called("ai_upscale_image", input, output, fault,
                 ai_upscale_image(files, input, output, model_present, fault))

CallNext == CallCompression \/ CallUpscale

CallSpec == CallInit /\ [][CallNext]_vars

(***************************************************************************)
(* The Demo page's upload handler, lines 91-108, one action per statement. *)
(* Each session runs the script in its own thread; the script has no       *)
(* handler for the exceptions its statements raise, so one ends the run.   *)
(***************************************************************************)
Active(s) == pc[s] \notin {"idle", "done", "failed"}

Step(op, src, dst, q) == [op |-> op, src |-> src, dst |-> dst, quality |-> q]

\* the upload's id among the ids a run has read, when content c was read
Read(s, c) == [reads EXCEPT ![s] = @ \cup {c.id}]

\* lines 91-97: the uploader hands over a file; the three paths are derived
\* from its name
Upload(s) ==
    /\ ~Active(s)
    /\ uploads < MaxUploads
    /\ \E name \in Names, sh \in Shapes :
          /\ req' = [req EXCEPT ![s] = [id |-> uploads + 1, name |-> name,
                                        w |-> sh[1], h |-> sh[2]]]
          /\ name_of' = [name_of EXCEPT ![uploads + 1] = name]
    /\ uploads' = uploads + 1
    /\ pc' = [pc EXCEPT ![s] = "save"]
    /\ log' = [log EXCEPT ![s] = <<>>]
    /\ rendered' = [rendered EXCEPT ![s] = <<>>]
    /\ reads' = [reads EXCEPT ![s] = {}]
    /\ errors' = [errors EXCEPT ![s] = 0]
    /\ overlapped' = (overlapped \/ \E t \in Sessions \ {s} : Active(t))
    /\ UNCHANGED <<fvars, svars, cvars>>

\* lines 99-100: img.save(original_image_path)
SaveOriginal(s) ==
    /\ pc[s] = "save"
    /\ files' = [files EXCEPT ![original_image_path(req[s].name)] =
                                  Image(req[s].id, req[s].w, req[s].h)]
    /\ log' = [log EXCEPT ![s] =
                  Append(@, Step("save", NoPath, original_image_path(req[s].name), 0))]
    /\ pc' = [pc EXCEPT ![s] = "compress1"]
    /\ UNCHANGED <<model_present, req, uploads, name_of, rendered, reads, errors,
                   overlapped, svars, cvars>>

\* the outcome r of a call made by the handler at step `step`
Returned(s, step, r, next) ==
    /\ files' = r.files
    /\ log' = [log EXCEPT ![s] = Append(@, step)]
    /\ reads' = IF IsImage(files[step.src]) THEN Read(s, files[step.src]) ELSE reads
    /\ errors' = [errors EXCEPT ![s] = @ + (IF r.error THEN 1 ELSE 0)]
    /\ pc' = [pc EXCEPT ![s] = IF r.raised = "none" THEN next ELSE "failed"]
    /\ UNCHANGED <<model_present, req, uploads, name_of, rendered, overlapped,
                   svars, cvars>>

\* line 102
Compress1(s) ==
    /\ pc[s] = "compress1"
    /\ Returned(s,
                Step("compression_algorithm", original_image_path(req[s].name),
                     compressed_image_path(req[s].name), quality),
                compression_algorithm(files, original_image_path(req[s].name),
                                      compressed_image_path(req[s].name)),
                "compress2")

\* the second pass reading the original again instead of the compressed file
Compress2FromOriginal(s) ==
    /\ pc[s] = "compress2"
    /\ Returned(s,
                Step("compression_algorithm", original_image_path(req[s].name),
                     compressed_image_path(req[s].name), quality),
                compression_algorithm(files, original_image_path(req[s].name),
                                      compressed_image_path(req[s].name)),
                "upscale")

\* line 103
Compress2(s) ==
    /\ pc[s] = "compress2"
    /\ Returned(s,
                Step("compression_algorithm", compressed_image_path(req[s].name),
                     compressed_image_path(req[s].name), quality),
                compression_algorithm(files, compressed_image_path(req[s].name),
                                      compressed_image_path(req[s].name)),
                "upscale")

\* line 104; the value returned is dropped
Upscale(s) ==
    /\ pc[s] = "upscale"
    /\ \E fault \in Faults :
          Returned(s,
                   Step("ai_upscale_image", compressed_image_path(req[s].name),
                        ai_image_path(req[s].name), 0),
                   ai_upscale_image(files, compressed_image_path(req[s].name),
                                    ai_image_path(req[s].name), model_present, fault),
                   "render_original")

\* st.image(Image.open(path), ...): Image.open raises when path holds no image
Render(s, path, next) ==
    /\ log' = [log EXCEPT ![s] = Append(@, Step("render", path, NoPath, 0))]
    /\ IF IsImage(files[path])
       THEN /\ rendered' = [rendered EXCEPT ![s] = Append(@, files[path])]
            /\ reads' = Read(s, files[path])
            /\ pc' = [pc EXCEPT ![s] = next]
       ELSE /\ pc' = [pc EXCEPT ![s] = "failed"]
            /\ UNCHANGED <<rendered, reads>>
    /\ UNCHANGED <<fvars, req, uploads, name_of, errors, overlapped, svars, cvars>>

\* line 106
RenderOriginal(s) ==
    /\ pc[s] = "render_original"
    /\ Render(s, original_image_path(req[s].name), "render_compressed")

\* line 107
RenderCompressed(s) ==
    /\ pc[s] = "render_compressed"
    /\ Render(s, compressed_image_path(req[s].name), "render_upscaled")

\* line 108
RenderUpscaled(s) ==
    /\ pc[s] = "render_upscaled"
    /\ Render(s, ai_image_path(req[s].name), "done")

Run(s) ==
    \/ SaveOriginal(s)
    \/ Compress1(s)
    \/ Compress2(s)
    \/ Upscale(s)
    \/ RenderOriginal(s)
    \/ RenderCompressed(s)
    \/ RenderUpscaled(s)

Init ==
    /\ EmptyTemp
    /\ model_present \in BOOLEAN
    /\ HandlerIdle
    /\ SizeIdle
    /\ CallIdle

\* one user: an upload is handled to its end before the next one arrives
UploadAlone(s) ==
    /\ \A t \in Sessions : ~Active(t)
    /\ Upload(s)

Next == \E s \in Sessions : UploadAlone(s) \/ Run(s)

Spec == Init /\ [][Next]_vars

\* several users: the runs of different sessions interleave statement by
\* statement
ConcNext == \E s \in Sessions : Upload(s) \/ Run(s)

ConcSpec == Init /\ [][ConcNext]_vars

(***************************************************************************)
(* Properties.                                                             *)
(***************************************************************************)
\* the working size of an image of content c has an empty side, in exact
\* arithmetic: the longer side exceeds max_width times the shorter one
EmptyWorkingSize(c) == c.w > max_width * c.h \/ c.h > max_width * c.w

\* a step of ai_upscale_image fails in the call recorded in last
UpscaleStepFails ==
    \/ ~model_present
    \/ last.fault # "none"
    \/ ~IsImage(last.pre_in)
    \/ EmptyWorkingSize(last.pre_in)

CompressionOfMissingInput ==
    (last.op = "compression_algorithm" /\ last.pre_in = NoFile) =>
        /\ last.error
        /\ last.raised = "none"
        /\ last.ret = last.output
        /\ files[last.output] = last.pre_out

\* C2, its case: the input was missing while the output path held an image,
\* which is still there after the call
MissingInputKeptOutput ==
    /\ last.op = "compression_algorithm"
    /\ last.pre_in = NoFile
    /\ IsImage(last.pre_out)
    /\ files[last.output] = last.pre_out
    /\ last.ret = last.output

\* C3, as claimed: for width >= height, new_w is max_width and new_h is
\* max_width*h/w rounded to the nearest integer (whatever the rule for ties).
WorkingHeightRounded ==
    (sized /\ img_w >= img_h) =>
        /\ size.new_w = max_width
        /\ 2 * (max_width * img_h - size.new_h * img_w) <= img_w
        /\ 2 * (size.new_h * img_w - max_width * img_h) <= img_w

\* C3, amended: for width >= height, new_w is max_width and new_h is
\* max_width*h/w truncated, not rounded, or one less than the quotient when it
\* is an integer: max_width*h/w - 1 <= new_h <= max_width*h/w.
WorkingHeightTruncated ==
    (sized /\ img_w >= img_h) =>
        /\ size.new_w = max_width
        /\ size.new_h * img_w <= max_width * img_h
        /\ max_width * img_h <= (size.new_h + 1) * img_w

\* C3, its case: a wide image whose working height lies more than half a
\* pixel below the exact quotient
WorkingHeightBelowNearest ==
    /\ sized
    /\ img_w >= img_h
    /\ size.new_w = max_width
    /\ 2 * (max_width * img_h - size.new_h * img_w) > img_w

\* C8: the two-branch rule with exact truncated quotients: for w >= h, new_w
\* is max_width and new_h is max_width*h \div w; otherwise new_h is max_width
\* and new_w is max_width*w \div h; so the longer side is max_width and no
\* side exceeds it.
WorkingSizeTwoBranchRule ==
    sized =>
        /\ IF img_w >= img_h
           THEN size.new_w = max_width /\ size.new_h = (max_width * img_h) \div img_w
           ELSE size.new_h = max_width /\ size.new_w = (max_width * img_w) \div img_h
        /\ size.new_w <= max_width
        /\ size.new_h <= max_width

\* C10: for every image size both sides of the working size are at least 1.
WorkingSizeNotEmpty == sized => (size.new_w >= 1 /\ size.new_h >= 1)

\* C4: no handler run ends on an uncaught exception before its three renders
\* are done, whatever the upscale step did.
EveryRunRendersAll == \A s \in Sessions : pc[s] # "failed"

\* the steps of a run for the upload named name, in the order of lines 100-108
Pipeline(name) ==
    <<Step("save", NoPath, original_image_path(name), 0),
      Step("compression_algorithm", original_image_path(name),
           compressed_image_path(name), 40),
      Step("compression_algorithm", compressed_image_path(name),
           compressed_image_path(name), 40),
      Step("ai_upscale_image", compressed_image_path(name), ai_image_path(name), 0),
      Step("render", original_image_path(name), NoPath, 0),
      Step("render", compressed_image_path(name), NoPath, 0),
      Step("render", ai_image_path(name), NoPath, 0)>>

\* how many steps have returned when a run stands at p
StepsDone(p) ==
    CASE p = "save" -> 0
      [] p = "compress1" -> 1
      [] p = "compress2" -> 2
      [] p = "upscale" -> 3
      [] p = "render_original" -> 4
      [] p = "render_compressed" -> 5
      [] p = "render_upscaled" -> 6
      [] p = "done" -> 7

\* C5: the steps of every run are, in this order, the save of the original,
\* compression_algorithm at quality 40 from the original path to the compressed
\* path, compression_algorithm at quality 40 from the compressed path onto
\* itself, ai_upscale_image from the compressed path to the upscaled path, and
\* only then the renders; each step starts when the one before has returned.
PipelineOrder ==
    \A s \in Sessions :
        /\ Len(log[s]) <= 7
        /\ log[s] = SubSeq(Pipeline(req[s].name), 1, Len(log[s]))
        /\ pc[s] \notin {"idle", "failed"} => Len(log[s]) = StepsDone(pc[s])

\* C5, its case: a run that went through all of its steps
RunCompleted == \E s \in Sessions : pc[s] = "done" /\ Len(log[s]) = 7

\* the file c is an original as the handler saved it
IsOriginal(c) == IsImage(c) /\ c.id > 0 /\ c.passes = 0 /\ ~c.up

\* C6: a saved original is never mutated: the only step that changes the file
\* at its path is the save of an upload of that same file name, never a
\* re-encode or an upscale.
OriginalNeverMutated ==
    [][\A p \in Paths :
          (IsOriginal(files[p]) /\ files'[p] # files[p]) =>
              \E s \in Sessions : /\ pc[s] = "save"
                                  /\ pc'[s] = "compress1"
                                  /\ original_image_path(req[s].name) = p]_vars

\* the run of session s has read a file written for another upload of the
\* same file name
ReadOthersFile(s) ==
    \E i \in reads[s] : i # req[s].id /\ i > 0 /\ name_of[i] = req[s].name

\* C7: runs for uploads of one file name read each other's files only when
\* they interleave: as long as no run started while another was under way, no
\* run compresses, upscales or renders a file written for the other upload.
SequentialRunsIsolated ==
    ~overlapped => \A s \in Sessions : ~ReadOthersFile(s)

\* C7, the race: two runs for the same file name are under way, and the first
\* re-encode of one has read the original saved by the other
RaceOnOriginal ==
    \E s \in Sessions, t \in Sessions :
        /\ s # t
        /\ Active(t)
        /\ pc[s] = "compress2"
        /\ req[s].name = req[t].name
        /\ reads[s] = {req[t].id}

\* C9: the upscaled image a run renders is the output of that run's own
\* upscale step on that run's twice-compressed image, never a file left by an
\* earlier request.
RenderedUpscaledIsOwn ==
    \A s \in Sessions :
        pc[s] = "done" =>
            /\ rendered[s][3].id = req[s].id
            /\ rendered[s][3].up
            /\ rendered[s][3].passes = 2

====
